---- MODULE Spec2Model ----
(***************************************************************************)
(* FastOrder backend (Express + MySQL): the order, payment and ticket      *)
(* handlers of the server, as a state machine.                             *)
(*                                                                         *)
(* The store is the five relations the handlers touch.  Every handler is   *)
(* an async function: it runs from one `await db.query(...)` to the next   *)
(* without interruption, and other requests run in between.  One action    *)
(* of the model is therefore one query of a handler together with the      *)
(* synchronous code that follows it up to the next query (or up to the     *)
(* response).  Every query is a statement of its own on the pool           *)
(* (autocommit): no handler opens a transaction or takes a lock.           *)
(***************************************************************************)
EXTENDS Integers, Sequences, FiniteSets, Bags, TLC

\* ------------------------------------------------------------------ bounds
MaxInFlight == 2    \* requests being served at the same time
MaxOrders   == 1    \* order rows inserted in one behaviour
MaxPayments == 2    \* payment rows inserted in one behaviour
MaxItems    == 2    \* longest item list of an order
MaxPrice    == 2    \* largest food price
MaxQuantity == 2    \* largest quantity of an item
MaxAmount   == 2    \* largest amount a client sends

\* ------------------------------------------------------------- vocabulary
Users     == {"u1", "u2"}
FoodIds   == {1, 2}                \* rows of the food table
UnknownFood == 3                   \* a food_id with no row



VARIABLES
  food,         \* food_id -> price                         (table food)
  orders,       \* set of [id, user_id, total_price, status]
  order_items,  \* set of [id, order_id, food_id, quantity, unit_price]
  payments,     \* set of [payment_id, order_id, method, amount, status, transaction_id]
  tickets,      \* set of [id, order_id, ticket_code, is_used]
  autoinc,      \* next AUTO_INCREMENT id of each table, next fresh code and stamp
  reqs,         \* the requests being served: a bag of handler states (locals and position)
  resp,         \* the response the last step sent (NoResp when it sent none)
  hist          \* what has been answered so far (history, read by the properties only)

tables == <<food, orders, order_items, payments, tickets, autoinc>>
vars   == <<food, orders, order_items, payments, tickets, autoinc, reqs, resp, hist>>

\* ------------------------------------------------------------ request state
\* The locals of a handler.  One record shape serves every handler; a field a
\* handler does not use keeps its idle value.
NoParams == [vnp_TxnRef |-> <<>>, vnp_ResponseCode |-> <<>>, vnp_Amount |-> <<>>,
             vnp_OrderInfo |-> <<>>,
             vnp_SecureHashType |-> <<>>, vnp_SecureHash |-> <<>>]

IdleReq == [op |-> "idle", pc |-> "idle", user |-> "none", order_id |-> 0,
            items |-> <<>>, i |-> 0, total_price |-> 0, unit_prices |-> <<>>,
            method |-> "none", amount |-> 0, transaction_id |-> <<>>,
            payment_id |-> 0, status |-> "none", ticket_code |-> 0,
            ticket_id |-> 0, params |-> NoParams,
            paid |-> FALSE,  \* history: the order had a completed payment when the request came
            wrote |-> FALSE, \* history: a statement of the handler has changed a row
            replay |-> FALSE, \* history: the callback before this one was the same and was applied
            late |-> FALSE]   \* history: the code was spent when the request came

\* A response: the handler, its outcome, what the body names, and the query
\* parameters the request came with.
Response(r, result) ==
  [op |-> r.op, result |-> result, user |-> r.user, order_id |-> r.order_id,
   payment_id |-> r.payment_id, ticket_code |-> r.ticket_code, total_price |-> r.total_price,
   amount |-> r.amount, status |-> r.status, params |-> r.params]

NoResp == Response(IdleReq, "none")

NoHist == [issued  |-> {},   \* [transaction_id, amount] handed to a client (payment_url)
           removed |-> {}]   \* order ids the strict cancel answered 200 for

\* A step of a handler.  q is the request as it stands among reqs (IdleReq for
\* a request that arrives in this step), r its locals after the step.
One(r) == SetToBag({r})

InFlight(q, op, pc) == BagIn(q, reqs) /\ q.op = op /\ q.pc = pc

Without(q) == IF q.op = "idle" THEN reqs ELSE reqs (-) One(q)

\* The handler goes on to its next query.
Goto(q, r, pc) == /\ reqs' = Without(q) (+) One([r EXCEPT !.pc = pc])
                  /\ resp' = NoResp
                  /\ UNCHANGED hist

\* The locals r after a statement that has changed a row (or not).
Wrote(r, changed) == [r EXCEPT !.wrote = @ \/ changed]

\* res.json / res.status(..).json / res.redirect: the handler is over.
RespondH(q, r, result, h) == /\ reqs' = Without(q)
                             /\ resp' = Response(r, result)
                             /\ hist' = h

Respond(q, r, result) == RespondH(q, r, result, hist)

\* ------------------------------------------------------------ store helpers
OrderRows(oid)   == {o \in orders : o.id = oid}
PaymentRows(oid) == {p \in payments : p.order_id = oid}
TicketRows(oid)  == {t \in tickets : t.order_id = oid}
ItemRows(oid)    == {it \in order_items : it.order_id = oid}

\* The schema's foreign keys: order_items, payments and tickets refer to
\* orders.  A row is inserted only for an order that exists, and an order that
\* rows refer to is not deleted (ON DELETE is left at its default); the
\* statement fails otherwise and the handler's catch answers 500.
OrderExists(oid) == OrderRows(oid) # {}

\* Fault variant of OrderReferenced: the store lets an order be deleted while
\* rows refer to it.
OrderReferenced_Never(oid) == FALSE

OrderReferenced(oid) == ItemRows(oid) # {} \/ PaymentRows(oid) # {} \/ TicketRows(oid) # {}

\* A ticket code that redeems nothing any more: it has been given to a
\* ticket, and no unused ticket carries it (the ticket is used, or deleted).
Spent(code) ==
  /\ code < autoinc.code
  /\ \A t \in tickets : t.ticket_code = code => t.is_used

\* catch (err) { res.status(500).json({ error: 'Server error' }) }: the
\* statement changed nothing.
StoreError(q) ==
  /\ UNCHANGED tables
  /\ Respond(q, q, "500 server error")

\* rows[0] of a SELECT without ORDER BY: the row with the lowest primary key
\* (the order in which InnoDB returns the rows of an index scan).
FirstPayment(rows) == CHOOSE p \in rows : \A q \in rows : p.payment_id <= q.payment_id

SetOrderStatus(oid, st) ==
  {IF o.id = oid THEN [o EXCEPT !.status = st] ELSE o : o \in orders}

SetPaymentStatusOfOrder(oid, st) ==
  {IF p.order_id = oid THEN [p EXCEPT !.status = st] ELSE p : p \in payments}

SetPaymentStatus(pid, st) ==
  {IF p.payment_id = pid THEN [p EXCEPT !.status = st] ELSE p : p \in payments}

RECURSIVE SumItems(_)
SumItems(rows) ==
  IF rows = {} THEN 0
  ELSE LET it == CHOOSE x \in rows : TRUE
       IN it.quantity * it.unit_price + SumItems(rows \ {it})

\* -------------------------------------------------- PUT /api/foods/:id (admin)
\* One UPDATE; the price is whatever the admin sends, but not 0 (!price).
UpdateFood(f, price) ==
  /\ UNCHANGED <<orders, order_items, payments, tickets, autoinc, reqs, hist>>
  /\ LET r == [IdleReq EXCEPT !.op = "UpdateFood"] IN
     IF price = 0
       THEN food' = food /\ resp' = Response(r, "400 name, price, category required")
       ELSE IF f \notin DOMAIN food
         THEN food' = food /\ resp' = Response(r, "404 food not found")
         ELSE food' = [food EXCEPT ![f] = price] /\ resp' = Response(r, "200")

\* ------------------------------------------------------- POST /api/orders
\* The price loop: one SELECT per item, the snapshot kept in itemsWithPrice.
\* Fault variant of CO_Price: the quantity is left out of the total.
CO_Price_NoQuantity(q, r) ==
  LET item == r.items[r.i] IN
  /\ UNCHANGED tables
  /\ IF item.food_id \notin DOMAIN food
       THEN Respond(q, r, "404 food not found")
       ELSE LET r2 == [r EXCEPT !.total_price = @ + food[item.food_id],
                                !.unit_prices = Append(@, food[item.food_id]),
                                !.i = @ + 1]
            IN IF r.i < Len(r.items)
                 THEN Goto(q, r2, "price")
                 ELSE Goto(q, [r2 EXCEPT !.i = 1], "insertOrder")

CO_Price(q, r) ==
  LET item == r.items[r.i] IN
  /\ UNCHANGED tables
  /\ IF item.food_id \notin DOMAIN food
       THEN Respond(q, r, "404 food not found")
       ELSE LET r2 == [r EXCEPT !.total_price = @ + food[item.food_id] * item.quantity,
                                !.unit_prices = Append(@, food[item.food_id]),
                                !.i = @ + 1]
            IN IF r.i < Len(r.items)
                 THEN Goto(q, r2, "price")
                 ELSE Goto(q, [r2 EXCEPT !.i = 1], "insertOrder")

\* Order rows inserted so far, and those the requests being served will insert.
Underway(op, pcs) ==
  BagCardinality([q \in {x \in BagToSet(reqs) : x.op = op /\ x.pc \in pcs} |-> reqs[q]])

OrdersUnderway ==
  (autoinc.orders - 1) + Underway("CreateOrder", {"price", "insertOrder"})

CreateOrder_Begin(u, items) ==
  /\ LET r == [IdleReq EXCEPT !.op = "CreateOrder", !.user = u, !.items = items, !.i = 1] IN
     IF items = <<>>
       THEN UNCHANGED tables /\ Respond(IdleReq, r, "400 items required")
       ELSE CO_Price(IdleReq, r)

CreateOrder_Price(q) ==
  /\ InFlight(q, "CreateOrder", "price")
  /\ CO_Price(q, q)

CreateOrder_InsertOrder(q) ==
  /\ InFlight(q, "CreateOrder", "insertOrder")
  /\ LET r == q IN
     /\ orders' = orders \cup {[id |-> autoinc.orders, user_id |-> r.user,
                                total_price |-> r.total_price, status |-> "pending"]}
     /\ autoinc' = [autoinc EXCEPT !.orders = @ + 1]
     /\ Goto(q, Wrote([r EXCEPT !.order_id = autoinc.orders], TRUE), "insertItem")
  /\ UNCHANGED <<food, order_items, payments, tickets>>

CreateOrder_InsertItem(q) ==
  /\ InFlight(q, "CreateOrder", "insertItem")
  /\ IF ~OrderExists(q.order_id) THEN StoreError(q) ELSE
     LET r == q
         item == r.items[r.i] IN
     /\ order_items' = order_items \cup
          {[id |-> autoinc.order_items, order_id |-> r.order_id, food_id |-> item.food_id,
            quantity |-> item.quantity, unit_price |-> r.unit_prices[r.i]]}
     /\ autoinc' = [autoinc EXCEPT !.order_items = @ + 1]
     /\ IF r.i < Len(r.items)
          THEN Goto(q, Wrote([r EXCEPT !.i = @ + 1], TRUE), "insertItem")
          ELSE Goto(q, Wrote(r, TRUE), "insertTicket")
     /\ UNCHANGED <<food, orders, payments, tickets>>

\* ticket_code = randomBytes(8).toString('hex'): a code no ticket has had.
CreateOrder_InsertTicket(q) ==
  /\ InFlight(q, "CreateOrder", "insertTicket")
  /\ IF ~OrderExists(q.order_id) THEN StoreError(q) ELSE
     LET r == [q EXCEPT !.ticket_code = autoinc.code, !.ticket_id = autoinc.tickets] IN
     /\ tickets' = tickets \cup {[id |-> autoinc.tickets, order_id |-> r.order_id,
                                  ticket_code |-> autoinc.code, is_used |-> FALSE]}
     /\ autoinc' = [autoinc EXCEPT !.tickets = @ + 1, !.code = @ + 1]
     /\ Respond(q, r, "200")
     /\ UNCHANGED <<food, orders, order_items, payments>>

\* ------------------------------------------------------ POST /api/payments
\* After the duplicate check (and the purge): the method decides the rest.
\* vnp_TxnRef = `ORDER_${order_id}_${Date.now()}`, kept as <<order_id, stamp>>.
RP_Method(q, r) ==
  CASE r.method = "cash" ->
         /\ autoinc' = autoinc
         /\ Goto(q, r, "insertPayment")
    [] r.method = "online" ->
         /\ autoinc' = [autoinc EXCEPT !.stamp = @ + 1]
         /\ Goto(q, [r EXCEPT !.transaction_id = <<r.order_id, autoinc.stamp>>], "insertPayment")
    [] OTHER ->
         /\ autoinc' = autoinc
         /\ Respond(q, r, "400 invalid method")

\* Payment rows inserted so far, and those the requests being served may insert.
PaymentsUnderway ==
  (autoinc.payments - 1) +
  Underway("RecordPayment", {"selectPayments", "deletePayments", "insertPayment"})

\* Fault variant of RecordPayment_Begin: the order is looked up by its id
\* alone.
RecordPayment_Begin_AnyUser(u, oid, method, amount) ==
  /\ UNCHANGED tables
  /\ LET r == [IdleReq EXCEPT !.op = "RecordPayment", !.user = u, !.order_id = oid,
                              !.method = method, !.amount = amount,
                              !.paid = \E p \in PaymentRows(oid) : p.status = "completed"] IN
     IF amount <= 0
       THEN Respond(IdleReq, r, "400 amount")
       ELSE IF OrderRows(oid) = {}
         THEN Respond(IdleReq, r, "404 order not found or not authorized")
         ELSE Goto(IdleReq, r, "selectPayments")

RecordPayment_Begin(u, oid, method, amount) ==
  /\ UNCHANGED tables
  /\ LET r == [IdleReq EXCEPT !.op = "RecordPayment", !.user = u, !.order_id = oid,
                              !.method = method, !.amount = amount,
                              !.paid = \E p \in PaymentRows(oid) : p.status = "completed"] IN
     IF amount <= 0
       THEN Respond(IdleReq, r, "400 amount")
       ELSE IF {o \in orders : o.id = oid /\ o.user_id = u} = {}
         THEN Respond(IdleReq, r, "404 order not found or not authorized")
         ELSE Goto(IdleReq, r, "selectPayments")

\* Fault variant of RecordPayment_SelectPayments: a cancelled payment is final
\* too, and the request is refused.
RecordPayment_SelectPayments_NoRetry(q) ==
  /\ InFlight(q, "RecordPayment", "selectPayments")
  /\ UNCHANGED <<food, orders, order_items, payments, tickets>>
  /\ LET r == q
         existingPayments == PaymentRows(r.order_id) IN
     IF existingPayments # {}
       THEN LET payment == FirstPayment(existingPayments) IN
            IF payment.status \in {"completed", "cancelled"}
              THEN autoinc' = autoinc /\ Respond(q, r, "400 payment already completed")
              ELSE IF payment.status \in {"pending", "failed"}
                THEN autoinc' = autoinc /\ Goto(q, r, "deletePayments")
                ELSE RP_Method(q, r)
       ELSE RP_Method(q, r)

RecordPayment_SelectPayments(q) ==
  /\ InFlight(q, "RecordPayment", "selectPayments")
  /\ UNCHANGED <<food, orders, order_items, payments, tickets>>
  /\ LET r == q
         existingPayments == PaymentRows(r.order_id) IN
     IF existingPayments # {}
       THEN LET payment == FirstPayment(existingPayments) IN
            IF payment.status = "completed"
              THEN autoinc' = autoinc /\ Respond(q, r, "400 payment already completed")
              ELSE IF payment.status \in {"pending", "failed", "cancelled"}
                THEN autoinc' = autoinc /\ Goto(q, r, "deletePayments")
                ELSE RP_Method(q, r)
       ELSE RP_Method(q, r)

RecordPayment_DeletePayments(q) ==
  /\ InFlight(q, "RecordPayment", "deletePayments")
  /\ payments' = payments \ PaymentRows(q.order_id)
  /\ RP_Method(q, Wrote(q, PaymentRows(q.order_id) # {}))
  /\ UNCHANGED <<food, orders, order_items, tickets>>

RecordPayment_InsertPayment(q) ==
  /\ InFlight(q, "RecordPayment", "insertPayment")
  /\ IF ~OrderExists(q.order_id) THEN StoreError(q) ELSE
     LET r == q IN
     /\ payments' = payments \cup
          {[payment_id |-> autoinc.payments, order_id |-> r.order_id, method |-> r.method,
            amount |-> r.amount, status |-> "pending", transaction_id |-> r.transaction_id]}
     /\ autoinc' = [autoinc EXCEPT !.payments = @ + 1]
     /\ Goto(q, Wrote([r EXCEPT !.payment_id = autoinc.payments, !.status = "pending"], TRUE),
             IF r.method = "cash" THEN "updateOrder" ELSE "selectTickets")
     /\ UNCHANGED <<food, orders, order_items, tickets>>

RecordPayment_UpdateOrder(q) ==
  /\ InFlight(q, "RecordPayment", "updateOrder")
  /\ orders' = SetOrderStatus(q.order_id, "confirmed")
  /\ Goto(q, Wrote(q, orders' # orders), "selectTickets")
  /\ UNCHANGED <<food, order_items, payments, tickets, autoinc>>

\* The response of an online payment carries payment_url: from then on the
\* gateway may be asked to pay that transaction reference.
RP_Respond(q, r) ==
  RespondH(q, r, "200",
           IF r.method = "online"
             THEN [hist EXCEPT !.issued = @ \cup {[transaction_id |-> r.transaction_id,
                                                    amount |-> r.amount]}]
             ELSE hist)

RecordPayment_SelectTickets(q) ==
  /\ InFlight(q, "RecordPayment", "selectTickets")
  /\ UNCHANGED tables
  /\ IF TicketRows(q.order_id) = {}
       THEN Goto(q, q, "insertTicket")
       ELSE RP_Respond(q, q)

\* ticket_code = `TICKET_${order_id}_${Date.now()}`; is_used takes the column default.
RecordPayment_InsertTicket(q) ==
  /\ InFlight(q, "RecordPayment", "insertTicket")
  /\ IF ~OrderExists(q.order_id) THEN StoreError(q) ELSE
     /\ tickets' = tickets \cup {[id |-> autoinc.tickets, order_id |-> q.order_id,
                                  ticket_code |-> autoinc.code, is_used |-> FALSE]}
     /\ autoinc' = [autoinc EXCEPT !.tickets = @ + 1, !.code = @ + 1]
     /\ RP_Respond(q, q)
     /\ UNCHANGED <<food, orders, order_items, payments>>

\* ------------------------------------------- POST /api/payments/confirm (admin)
\* payment_id 0 is a body without payment_id (!payment_id).
\* Fault variant of ConfirmCashPayment_Begin: the payment is looked up by its
\* id alone, whatever its method.
ConfirmCashPayment_Begin_AnyMethod(pid) ==
  /\ UNCHANGED tables
  /\ LET r == [IdleReq EXCEPT !.op = "ConfirmCashPayment", !.payment_id = pid]
         found == {p \in payments : p.payment_id = pid} IN
     IF pid = 0
       THEN Respond(IdleReq, r, "400 payment id required")
       ELSE IF found = {}
         THEN Respond(IdleReq, r, "404 payment not found")
         ELSE IF FirstPayment(found).status = "completed"
           THEN Respond(IdleReq, r, "400 payment already completed")
           ELSE Goto(IdleReq, r, "update")

ConfirmCashPayment_Begin(pid) ==
  /\ UNCHANGED tables
  /\ LET r == [IdleReq EXCEPT !.op = "ConfirmCashPayment", !.payment_id = pid]
         found == {p \in payments : p.payment_id = pid /\ p.method = "cash"} IN
     IF pid = 0
       THEN Respond(IdleReq, r, "400 payment id required")
       ELSE IF found = {}
         THEN Respond(IdleReq, r, "404 payment not found")
         ELSE IF FirstPayment(found).status = "completed"
           THEN Respond(IdleReq, r, "400 payment already completed")
           ELSE Goto(IdleReq, r, "update")

ConfirmCashPayment_Update(q) ==
  /\ InFlight(q, "ConfirmCashPayment", "update")
  /\ payments' = SetPaymentStatus(q.payment_id, "completed")
  /\ Respond(q, q, "200")
  /\ UNCHANGED <<food, orders, order_items, tickets, autoinc>>

\* ------------------------------- PUT /api/admin/orders/:orderId/status (admin)
AdminStatuses == {"pending", "confirmed", "completed"}

\* Fault variant of UpdateOrderStatus_Begin: the requested status is not
\* checked.
UpdateOrderStatus_Begin_AnyStatus(oid, status) ==
  /\ UNCHANGED tables
  /\ LET r == [IdleReq EXCEPT !.op = "UpdateOrderStatus", !.order_id = oid, !.status = status] IN
     IF OrderRows(oid) = {}
       THEN Respond(IdleReq, r, "404 order not found")
       ELSE Goto(IdleReq, r, "update")

UpdateOrderStatus_Begin(oid, status) ==
  /\ UNCHANGED tables
  /\ LET r == [IdleReq EXCEPT !.op = "UpdateOrderStatus", !.order_id = oid, !.status = status] IN
     IF status \notin AdminStatuses
       THEN Respond(IdleReq, r, "400 invalid status")
       ELSE IF OrderRows(oid) = {}
         THEN Respond(IdleReq, r, "404 order not found")
         ELSE Goto(IdleReq, r, "update")

UpdateOrderStatus_Update(q) ==
  /\ InFlight(q, "UpdateOrderStatus", "update")
  /\ orders' = SetOrderStatus(q.order_id, q.status)
  /\ Respond(q, q, "200")
  /\ UNCHANGED <<food, order_items, payments, tickets, autoinc>>

\* ------------------------------------ DELETE /api/orders/:orderId/cancel
\* Fault variant of CancelOrder_Begin: the status of the order is not looked
\* at.
CancelOrder_Begin_AnyStatus(u, oid) ==
  /\ UNCHANGED tables
  /\ LET r == [IdleReq EXCEPT !.op = "CancelOrder", !.user = u, !.order_id = oid]
         found == {o \in orders : o.id = oid /\ o.user_id = u} IN
     IF found = {}
       THEN Respond(IdleReq, r, "404 order not found or not authorized")
       ELSE Goto(IdleReq, r, "deleteTickets")

CancelOrder_Begin(u, oid) ==
  /\ UNCHANGED tables
  /\ LET r == [IdleReq EXCEPT !.op = "CancelOrder", !.user = u, !.order_id = oid]
         found == {o \in orders : o.id = oid /\ o.user_id = u} IN
     IF found = {}
       THEN Respond(IdleReq, r, "404 order not found or not authorized")
       ELSE IF \E o \in found : o.status # "pending"
         THEN Respond(IdleReq, r, "400 only pending orders can be cancelled")
         ELSE Goto(IdleReq, r, "deleteTickets")

CancelOrder_DeleteTickets(q) ==
  /\ InFlight(q, "CancelOrder", "deleteTickets")
  /\ tickets' = tickets \ TicketRows(q.order_id)
  /\ Goto(q, Wrote(q, tickets' # tickets), "deleteItems")
  /\ UNCHANGED <<food, orders, order_items, payments, autoinc>>

CancelOrder_DeleteItems(q) ==
  /\ InFlight(q, "CancelOrder", "deleteItems")
  /\ order_items' = order_items \ ItemRows(q.order_id)
  /\ Goto(q, Wrote(q, order_items' # order_items), "deletePayments")
  /\ UNCHANGED <<food, orders, payments, tickets, autoinc>>

CancelOrder_DeletePayments(q) ==
  /\ InFlight(q, "CancelOrder", "deletePayments")
  /\ payments' = payments \ PaymentRows(q.order_id)
  /\ Goto(q, Wrote(q, payments' # payments), "deleteOrder")
  /\ UNCHANGED <<food, orders, order_items, tickets, autoinc>>

\* Fault variant of CancelOrder_DeleteOrder: the order is marked cancelled, as
\* DELETE /api/orders/:orderId does, instead of deleted.
CancelOrder_DeleteOrder_Soft(q) ==
  /\ InFlight(q, "CancelOrder", "deleteOrder")
  /\ orders' = SetOrderStatus(q.order_id, "cancelled")
  /\ RespondH(q, q, "200", [hist EXCEPT !.removed = @ \cup {q.order_id}])
  /\ UNCHANGED <<food, order_items, payments, tickets, autoinc>>

CancelOrder_DeleteOrder(q) ==
  /\ InFlight(q, "CancelOrder", "deleteOrder")
  /\ IF OrderReferenced(q.order_id) THEN StoreError(q) ELSE
     /\ orders' = orders \ OrderRows(q.order_id)
     /\ RespondH(q, q, "200", [hist EXCEPT !.removed = @ \cup {q.order_id}])
     /\ UNCHANGED <<food, order_items, payments, tickets, autoinc>>

\* ------------------------------------------- DELETE /api/orders/:orderId
SoftCancelOrder_Begin(u, oid) ==
  /\ UNCHANGED tables
  /\ LET r == [IdleReq EXCEPT !.op = "SoftCancelOrder", !.user = u, !.order_id = oid] IN
     IF {o \in orders : o.id = oid /\ o.user_id = u} = {}
       THEN Respond(IdleReq, r, "404 order not found or not authorized")
       ELSE Goto(IdleReq, r, "update")

\* Fault variant of SoftCancelOrder_Update: the ticket of the order is
\* deleted as well.
SoftCancelOrder_Update_Cascade(q) ==
  /\ InFlight(q, "SoftCancelOrder", "update")
  /\ orders' = SetOrderStatus(q.order_id, "cancelled")
  /\ tickets' = tickets \ TicketRows(q.order_id)
  /\ Respond(q, q, "200")
  /\ UNCHANGED <<food, order_items, payments, autoinc>>

SoftCancelOrder_Update(q) ==
  /\ InFlight(q, "SoftCancelOrder", "update")
  /\ orders' = SetOrderStatus(q.order_id, "cancelled")
  /\ Respond(q, q, "200")
  /\ UNCHANGED <<food, order_items, payments, tickets, autoinc>>

\* ------------------------------------------------------ VNPAY signature
\* A parameter value is a string, kept as a sequence of character codes:
\* 0..9 are the digits, then the characters below.  '' is <<>>.
Space   == 10
Plus    == 11
Percent == 12
LetterB == 13

\* encodeURIComponent(c) for one character: a digit or letter stays, ' ' is %20
\* and '+' is %2B, '%' is %25.
EncodeChar(c) ==
  CASE c = Space   -> <<Percent, 2, 0>>
    [] c = Plus    -> <<Percent, 2, LetterB>>
    [] c = Percent -> <<Percent, 2, 5>>
    [] OTHER       -> <<c>>

RECURSIVE EncodeURIComponent(_)
EncodeURIComponent(v) ==
  IF v = <<>> THEN <<>> ELSE EncodeChar(Head(v)) \o EncodeURIComponent(Tail(v))

\* .replace(/%20/g, '+')
RECURSIVE ReplacePercent20(_)
ReplacePercent20(v) ==
  IF Len(v) >= 3 /\ v[1] = Percent /\ v[2] = 2 /\ v[3] = 0
    THEN <<Plus>> \o ReplacePercent20(SubSeq(v, 4, Len(v)))
    ELSE IF v = <<>> THEN <<>> ELSE <<Head(v)>> \o ReplacePercent20(Tail(v))

\* Object.keys(params).sort() of a callback: the keys in alphabetical order.
SortedKeys == <<"vnp_Amount", "vnp_OrderInfo", "vnp_ResponseCode", "vnp_SecureHash",
                "vnp_SecureHashType", "vnp_TxnRef">>

\* Fault variant of SignedKey: the amount is left out of the signed data too.
SignedKey_NoAmount(params, key) ==
  /\ key # "vnp_SecureHash"
  /\ key # "vnp_SecureHashType"
  /\ key # "vnp_Amount"
  /\ params[key] # <<>>

SignedKey(params, key) ==
  /\ key # "vnp_SecureHash"
  /\ key # "vnp_SecureHashType"
  /\ params[key] # <<>>

\* createVnpaySignature(params, secretKey, true).  signData is the list of
\* key=value pieces (joined by '&' in the code; no encoded value holds '&' or
\* '='), and the digest stands for signData itself: HMAC-SHA512 under the
\* merchant's secret, which only the gateway and the server can compute and
\* which differs for different signData.
createVnpaySignature(params) ==
  LET orderedKeys == SelectSeq(SortedKeys, LAMBDA key : SignedKey(params, key))
  IN [j \in 1..Len(orderedKeys) |->
        <<orderedKeys[j], ReplacePercent20(EncodeURIComponent(params[orderedKeys[j]]))>>]

\* secureHash !== calculatedHash
ValidSignature(params) == params.vnp_SecureHash = createVnpaySignature(params)

\* ------------------------------------------------ GET /api/vnpay/return
\* order_id = vnp_TxnRef.split('_')[1]
TxnOrderId(ref) == IF Len(ref) >= 1 THEN ref[1] ELSE 0

SuccessCode == <<0, 0>>

\* The redirects of the handler: the callback was applied.
Redirects == {"302 payment=success", "302 payment=cancelled"}

Callback_Begin(params) ==
  /\ UNCHANGED <<food, orders, order_items, tickets, autoinc>>
  /\ LET r == [IdleReq EXCEPT !.op = "Callback", !.params = params,
                              !.order_id = TxnOrderId(params.vnp_TxnRef),
                              !.replay = /\ resp.op = "Callback"
                                         /\ resp.params = params
                                         /\ resp.result \in Redirects] IN
     IF ~ValidSignature(params)
       THEN payments' = payments /\ Respond(IdleReq, r, "400 invalid signature")
       ELSE IF params.vnp_ResponseCode = SuccessCode
         THEN /\ payments' = SetPaymentStatusOfOrder(r.order_id, "completed")
              /\ Goto(IdleReq, Wrote(r, payments' # payments), "updateOrder")
         ELSE /\ payments' = SetPaymentStatusOfOrder(r.order_id, "cancelled")
              /\ Respond(IdleReq, r, "302 payment=cancelled")

\* Fault variant of Callback_UpdateOrder: the statement moves the order on
\* by one status (a completed order to scanned) instead of assigning
\* completed.
Callback_UpdateOrder_Advance(q) ==
  /\ InFlight(q, "Callback", "updateOrder")
  /\ orders' = {IF o.id = q.order_id
                  THEN [o EXCEPT !.status = IF @ = "completed" THEN "scanned" ELSE "completed"]
                  ELSE o : o \in orders}
  /\ Respond(q, q, "302 payment=success")
  /\ UNCHANGED <<food, order_items, payments, tickets, autoinc>>

Callback_UpdateOrder(q) ==
  /\ InFlight(q, "Callback", "updateOrder")
  /\ orders' = SetOrderStatus(q.order_id, "completed")
  /\ Respond(q, q, "302 payment=success")
  /\ UNCHANGED <<food, order_items, payments, tickets, autoinc>>

\* ------------------------------------------ POST /api/admin/scan-qr (admin)
\* SELECT t.*, o.status FROM tickets t JOIN orders o ... WHERE t.ticket_code = ?
\* Fault variant of RedeemTicket_Begin: the test `ticket.is_used ||
\* orderStatus === 'scanned'` is left out, so a scanned order falls through to
\* the last branch.
RedeemTicket_Begin_NoUsedTest(code) ==
  /\ UNCHANGED tables
  /\ LET r == [IdleReq EXCEPT !.op = "RedeemTicket", !.ticket_code = code,
                              !.late = Spent(code)]
         found == {t \in tickets : t.ticket_code = code /\ OrderRows(t.order_id) # {}} IN
     IF found = {}
       THEN Respond(IdleReq, r, "404 ticket not found")
       ELSE LET ticket == CHOOSE t \in found : \A u \in found : t.id <= u.id
                orderStatus == (CHOOSE o \in OrderRows(ticket.order_id) : TRUE).status
                r2 == [r EXCEPT !.ticket_id = ticket.id, !.order_id = ticket.order_id]
            IN CASE orderStatus = "pending" -> Respond(IdleReq, r2, "400 not confirmed")
                 [] orderStatus = "confirmed" -> Respond(IdleReq, r2, "400 pay first")
                 [] orderStatus = "completed" -> Goto(IdleReq, r2, "updateOrder")
                 [] OTHER -> Respond(IdleReq, r2, "400 invalid order status")

\* Fault variant of RedeemTicket_Begin: an order that is confirmed is handed
\* out as well.
RedeemTicket_Begin_AcceptsConfirmed(code) ==
  /\ UNCHANGED tables
  /\ LET r == [IdleReq EXCEPT !.op = "RedeemTicket", !.ticket_code = code,
                              !.late = Spent(code)]
         found == {t \in tickets : t.ticket_code = code /\ OrderRows(t.order_id) # {}} IN
     IF found = {}
       THEN Respond(IdleReq, r, "404 ticket not found")
       ELSE LET ticket == CHOOSE t \in found : \A u \in found : t.id <= u.id
                orderStatus == (CHOOSE o \in OrderRows(ticket.order_id) : TRUE).status
                r2 == [r EXCEPT !.ticket_id = ticket.id, !.order_id = ticket.order_id]
            IN CASE ticket.is_used \/ orderStatus = "scanned" -> Respond(IdleReq, r2, "400 already used")
                 [] ~ticket.is_used /\ orderStatus = "pending" -> Respond(IdleReq, r2, "400 not confirmed")
                 [] ~ticket.is_used /\ orderStatus \in {"confirmed", "completed"} ->
                      Goto(IdleReq, r2, "updateOrder")
                 [] OTHER -> Respond(IdleReq, r2, "400 invalid order status")

\* Fault variant of RedeemTicket_Begin: one message for every order that is
\* not completed.
RedeemTicket_Begin_OneMessage(code) ==
  /\ UNCHANGED tables
  /\ LET r == [IdleReq EXCEPT !.op = "RedeemTicket", !.ticket_code = code,
                              !.late = Spent(code)]
         found == {t \in tickets : t.ticket_code = code /\ OrderRows(t.order_id) # {}} IN
     IF found = {}
       THEN Respond(IdleReq, r, "404 ticket not found")
       ELSE LET ticket == CHOOSE t \in found : \A u \in found : t.id <= u.id
                orderStatus == (CHOOSE o \in OrderRows(ticket.order_id) : TRUE).status
                r2 == [r EXCEPT !.ticket_id = ticket.id, !.order_id = ticket.order_id]
            IN CASE ticket.is_used \/ orderStatus = "scanned" -> Respond(IdleReq, r2, "400 already used")
                 [] ~ticket.is_used /\ orderStatus \in {"pending", "confirmed"} ->
                      Respond(IdleReq, r2, "400 pay first")
                 [] ~ticket.is_used /\ orderStatus = "completed" -> Goto(IdleReq, r2, "updateOrder")
                 [] OTHER -> Respond(IdleReq, r2, "400 invalid order status")

RedeemTicket_Begin(code) ==
  /\ UNCHANGED tables
  /\ LET r == [IdleReq EXCEPT !.op = "RedeemTicket", !.ticket_code = code,
                              !.late = Spent(code)]
         found == {t \in tickets : t.ticket_code = code /\ OrderRows(t.order_id) # {}} IN
     IF found = {}
       THEN Respond(IdleReq, r, "404 ticket not found")
       ELSE LET ticket == CHOOSE t \in found : \A u \in found : t.id <= u.id
                orderStatus == (CHOOSE o \in OrderRows(ticket.order_id) : TRUE).status
                r2 == [r EXCEPT !.ticket_id = ticket.id, !.order_id = ticket.order_id]
            IN CASE ticket.is_used \/ orderStatus = "scanned" -> Respond(IdleReq, r2, "400 already used")
                 [] ~ticket.is_used /\ orderStatus = "pending" -> Respond(IdleReq, r2, "400 not confirmed")
                 [] ~ticket.is_used /\ orderStatus = "confirmed" -> Respond(IdleReq, r2, "400 pay first")
                 [] ~ticket.is_used /\ orderStatus = "completed" -> Goto(IdleReq, r2, "updateOrder")
                 [] OTHER -> Respond(IdleReq, r2, "400 invalid order status")

RedeemTicket_UpdateOrder(q) ==
  /\ InFlight(q, "RedeemTicket", "updateOrder")
  /\ orders' = SetOrderStatus(q.order_id, "scanned")
  /\ Goto(q, Wrote(q, orders' # orders), "updateTicket")
  /\ UNCHANGED <<food, order_items, payments, tickets, autoinc>>

\* Fault variant of RedeemTicket_UpdateTicket: the statement toggles the flag
\* (SET is_used = NOT is_used) instead of setting it.
RedeemTicket_UpdateTicket_Toggle(q) ==
  /\ InFlight(q, "RedeemTicket", "updateTicket")
  /\ tickets' = {IF t.id = q.ticket_id THEN [t EXCEPT !.is_used = ~@] ELSE t : t \in tickets}
  /\ Respond(q, q, "200")
  /\ UNCHANGED <<food, orders, order_items, payments, autoinc>>

RedeemTicket_UpdateTicket(q) ==
  /\ InFlight(q, "RedeemTicket", "updateTicket")
  /\ tickets' = {IF t.id = q.ticket_id THEN [t EXCEPT !.is_used = TRUE] ELSE t : t \in tickets}
  /\ Respond(q, q, "200")
  /\ UNCHANGED <<food, orders, order_items, payments, autoinc>>

\* ------------------------------------------ POST /api/tickets/verify (admin)
\* SELECT t.*, p.status as payment_status FROM tickets t JOIN payments p
\*   ON t.order_id = p.order_id WHERE t.ticket_code = ? AND t.is_used = false
\* Fault variant of VerifyTicket_Begin: the status of the payment is not
\* tested.
VerifyTicket_Begin_NoPaymentTest(code) ==
  /\ UNCHANGED tables
  /\ LET r == [IdleReq EXCEPT !.op = "VerifyTicket", !.ticket_code = code,
                              !.late = Spent(code)]
         joined == {p \in payments : \E t \in tickets :
                      t.ticket_code = code /\ ~t.is_used /\ t.order_id = p.order_id} IN
     IF joined = {}
       THEN Respond(IdleReq, r, "400 ticket not found or already used")
       ELSE LET row == FirstPayment(joined) IN
            Goto(IdleReq, [r EXCEPT !.order_id = row.order_id], "update")

\* Fault variant of VerifyTicket_Begin: the SELECT does not ask for
\* t.is_used = false.
VerifyTicket_Begin_UsedToo(code) ==
  /\ UNCHANGED tables
  /\ LET r == [IdleReq EXCEPT !.op = "VerifyTicket", !.ticket_code = code,
                              !.late = Spent(code)]
         joined == {p \in payments : \E t \in tickets :
                      t.ticket_code = code /\ t.order_id = p.order_id} IN
     IF joined = {}
       THEN Respond(IdleReq, r, "400 ticket not found or already used")
       ELSE LET row == FirstPayment(joined) IN
            IF row.status # "completed"
              THEN Respond(IdleReq, [r EXCEPT !.order_id = row.order_id], "400 payment not completed")
              ELSE Goto(IdleReq, [r EXCEPT !.order_id = row.order_id], "update")

VerifyTicket_Begin(code) ==
  /\ UNCHANGED tables
  /\ LET r == [IdleReq EXCEPT !.op = "VerifyTicket", !.ticket_code = code,
                              !.late = Spent(code)]
         joined == {p \in payments : \E t \in tickets :
                      t.ticket_code = code /\ ~t.is_used /\ t.order_id = p.order_id} IN
     IF joined = {}
       THEN Respond(IdleReq, r, "400 ticket not found or already used")
       ELSE LET row == FirstPayment(joined) IN
            IF row.status # "completed"
              THEN Respond(IdleReq, [r EXCEPT !.order_id = row.order_id], "400 payment not completed")
              ELSE Goto(IdleReq, [r EXCEPT !.order_id = row.order_id], "update")

\* Fault variant of VerifyTicket_Update: the handler marks the ticket and
\* sends no response.
VerifyTicket_Update_NoAnswer(q) ==
  /\ InFlight(q, "VerifyTicket", "update")
  /\ tickets' = {IF t.ticket_code = q.ticket_code THEN [t EXCEPT !.is_used = TRUE] ELSE t
                   : t \in tickets}
  /\ Goto(q, q, "sent")
  /\ UNCHANGED <<food, orders, order_items, payments, autoinc>>

VerifyTicket_Update(q) ==
  /\ InFlight(q, "VerifyTicket", "update")
  /\ tickets' = {IF t.ticket_code = q.ticket_code THEN [t EXCEPT !.is_used = TRUE] ELSE t
                   : t \in tickets}
  /\ Respond(q, q, "200")
  /\ UNCHANGED <<food, orders, order_items, payments, autoinc>>

\* ------------------------------------------------------------------ inputs
\* A few of them: no items, one item, an unknown food, two items.
SomeItemLists ==
  {<<>>, <<[food_id |-> 1, quantity |-> 1]>>, <<[food_id |-> UnknownFood, quantity |-> 1]>>,
   <<[food_id |-> 1, quantity |-> 1], [food_id |-> 2, quantity |-> 2]>>}

Methods == {"cash", "online", "card"}
Amounts == 0..MaxAmount

\* The callback the gateway sends for a transaction it was asked to pay:
\* the reference and the amount (x100) of the payment request, the outcome,
\* and the signature over them.
Unsigned(issue, code, hashType) ==
  [vnp_TxnRef |-> issue.transaction_id, vnp_ResponseCode |-> code,
   vnp_Amount |-> <<issue.amount, 0, 0>>,
   vnp_OrderInfo |-> <<1, Space, TxnOrderId(issue.transaction_id)>>,
   vnp_SecureHashType |-> hashType, vnp_SecureHash |-> <<>>]

GatewaySigned(unsigned) == [unsigned EXCEPT !.vnp_SecureHash = createVnpaySignature(unsigned)]

ResponseCodes == {SuccessCode, <<2, 4>>}

GatewayCallbacks ==
  {GatewaySigned(Unsigned(issue, code, <<>>)) : issue \in hist.issued, code \in ResponseCodes}

\* What anyone can send to the return URL: a callback of the gateway with one
\* field given another value after the gateway signed it.
OtherValues(field) ==
  CASE field = "vnp_TxnRef"         -> {<<>>, <<2, 1>>}
    [] field = "vnp_ResponseCode"   -> {<<>>, <<0, 0>>, <<2, 4>>}
    [] field = "vnp_Amount"         -> {<<>>, <<1, 0, 0>>, <<2, 0, 0>>}
    [] field = "vnp_OrderInfo"      -> {<<>>, <<1, Plus, 1>>, <<1, Percent, 2, 0, 1>>}
    [] field = "vnp_SecureHashType" -> {<<>>, <<7>>}
    [] field = "vnp_SecureHash"     -> {<<>>, <<<<"vnp_Amount", <<7>>>>>>}

AllFields == DOMAIN NoParams

Altered(g) ==
  UNION {{[g EXCEPT ![f] = v] : v \in OtherValues(f) \ {g[f]}} : f \in AllFields}

AlteredCallbacks == UNION {Altered(g) : g \in GatewayCallbacks}

\* Ids a client can name: those handed out so far and one that no row has.
OrderIds   == 1..autoinc.orders
PaymentIds == 1..autoinc.payments
Codes      == 1..autoinc.code

\* ------------------------------------------------------------------- Init
\* The server starts on a store with the menu and no orders.
Init ==
  /\ food = [f \in FoodIds |-> f]
  /\ orders = {}
  /\ order_items = {}
  /\ payments = {}
  /\ tickets = {}
  /\ autoinc = [orders |-> 1, order_items |-> 1, payments |-> 1, tickets |-> 1,
                code |-> 1, stamp |-> 1]
  /\ reqs = EmptyBag
  /\ resp = NoResp
  /\ hist = NoHist

\* The handlers in flight run from one query to the next.
CreateOrder_Step ==
  \/ \E q \in BagToSet(reqs) : CreateOrder_Price(q)
  \/ \E q \in BagToSet(reqs) : CreateOrder_InsertOrder(q)
  \/ \E q \in BagToSet(reqs) : CreateOrder_InsertItem(q)
  \/ \E q \in BagToSet(reqs) : CreateOrder_InsertTicket(q)

\* RecordPayment up to its lookup of the order's ticket.
RecordPayment_Step ==
  \/ \E q \in BagToSet(reqs) : RecordPayment_SelectPayments(q)
  \/ \E q \in BagToSet(reqs) : RecordPayment_DeletePayments(q)
  \/ \E q \in BagToSet(reqs) : RecordPayment_InsertPayment(q)
  \/ \E q \in BagToSet(reqs) : RecordPayment_UpdateOrder(q)
  \/ \E q \in BagToSet(reqs) : RecordPayment_SelectTickets(q)

\* RecordPayment found no ticket of the order and inserts one.
RecordPayment_TicketStep == \E q \in BagToSet(reqs) : RecordPayment_InsertTicket(q)

ConfirmCashPayment_Step == \E q \in BagToSet(reqs) : ConfirmCashPayment_Update(q)

UpdateOrderStatus_Step == \E q \in BagToSet(reqs) : UpdateOrderStatus_Update(q)

CancelOrder_Step ==
  \/ \E q \in BagToSet(reqs) : CancelOrder_DeleteTickets(q)
  \/ \E q \in BagToSet(reqs) : CancelOrder_DeleteItems(q)
  \/ \E q \in BagToSet(reqs) : CancelOrder_DeletePayments(q)
  \/ \E q \in BagToSet(reqs) : CancelOrder_DeleteOrder(q)

SoftCancelOrder_Step == \E q \in BagToSet(reqs) : SoftCancelOrder_Update(q)

Callback_Step == \E q \in BagToSet(reqs) : Callback_UpdateOrder(q)

RedeemTicket_Step ==
  \/ \E q \in BagToSet(reqs) : RedeemTicket_UpdateOrder(q)
  \/ \E q \in BagToSet(reqs) : RedeemTicket_UpdateTicket(q)

VerifyTicket_Step == \E q \in BagToSet(reqs) : VerifyTicket_Update(q)

\* Every handler but RecordPayment's insertion of a ticket.
Step ==
  \/ CreateOrder_Step
  \/ RecordPayment_Step
  \/ ConfirmCashPayment_Step
  \/ UpdateOrderStatus_Step
  \/ CancelOrder_Step
  \/ SoftCancelOrder_Step
  \/ Callback_Step
  \/ RedeemTicket_Step
  \/ VerifyTicket_Step

Quiet == reqs = EmptyBag

\* A new request is taken while fewer than MaxInFlight are being served.
Room == BagCardinality(reqs) < MaxInFlight

\* The rows a behaviour may still insert.
RoomForOrder   == OrdersUnderway < MaxOrders
RoomForPayment == PaymentsUnderway < MaxPayments

\* ---------------------------------------------------------- specifications
\* Spec: the server.  The handlers of up to MaxInFlight requests interleave at
\* their queries.  The requests are those of one customer and of the admin,
\* and name the ids and codes of the rows there are.
TwoItems == <<[food_id |-> 1, quantity |-> 1], [food_id |-> 2, quantity |-> 1]>>

Next ==
  \/ Room /\ RoomForOrder /\ CreateOrder_Begin("u1", TwoItems)
  \/ \E o \in orders, m \in {"cash", "online"} :
       Room /\ RoomForPayment /\ RecordPayment_Begin("u1", o.id, m, 1)
  \/ \E p \in payments : Room /\ ConfirmCashPayment_Begin(p.payment_id)
  \/ \E o \in orders, st \in AdminStatuses : Room /\ UpdateOrderStatus_Begin(o.id, st)
  \/ \E o \in orders : Room /\ CancelOrder_Begin("u1", o.id)
  \/ \E o \in orders : Room /\ SoftCancelOrder_Begin("u1", o.id)
  \/ \E params \in GatewayCallbacks : Room /\ Callback_Begin(params)
  \/ \E t \in tickets : Room /\ RedeemTicket_Begin(t.ticket_code)
  \/ \E t \in tickets : Room /\ VerifyTicket_Begin(t.ticket_code)
  \/ Step
  \/ RecordPayment_TicketStep

Spec == Init /\ [][Next]_vars

\* SerialSpec: the requests are served one after the other, each handler
\* running to its response before the next request is taken.  Two customers,
\* and every input: also the ids and codes no row has, the values the
\* handlers refuse.  (An order whose creation has returned has its ticket, so
\* RecordPayment never inserts one here.)
SerialNext ==
  \/ \E u \in Users, items \in SomeItemLists :
       Quiet /\ RoomForOrder /\ CreateOrder_Begin(u, items)
  \/ \E u \in Users, oid \in OrderIds, m \in Methods, a \in Amounts :
       Quiet /\ RoomForPayment /\ RecordPayment_Begin(u, oid, m, a)
  \/ \E pid \in {0} \cup PaymentIds : Quiet /\ ConfirmCashPayment_Begin(pid)
  \/ \E oid \in OrderIds, st \in AdminStatuses \cup {"scanned"} :
       Quiet /\ UpdateOrderStatus_Begin(oid, st)
  \/ \E u \in Users, oid \in OrderIds : Quiet /\ CancelOrder_Begin(u, oid)
  \/ \E u \in Users, oid \in OrderIds : Quiet /\ SoftCancelOrder_Begin(u, oid)
  \/ \E params \in GatewayCallbacks : Quiet /\ Callback_Begin(params)
  \/ \E code \in Codes : Quiet /\ RedeemTicket_Begin(code)
  \/ \E code \in Codes : Quiet /\ VerifyTicket_Begin(code)
  \/ Step

SerialSpec == Init /\ [][SerialNext]_vars

\* ------------------------------------------------------------------ claims
\* The order of ticket t, as a set of rows (empty when the order is deleted).
StatusOfOrder(oid) == {o.status : o \in OrderRows(oid)}

\* A RedeemTicket request for `code` is being served.
Scanning(code) == \E q \in BagToSet(reqs) : q.op = "RedeemTicket" /\ q.ticket_code = code

\* RedeemSpec: the pickup.  A customer orders, the admin sets the status of
\* the order and scans its ticket, the handlers interleaving.  RedeemTicket is
\* the only handler here that marks a ticket used.
RedeemNext ==
  \/ Room /\ RoomForOrder /\ CreateOrder_Begin("u1", TwoItems)
  \/ \E o \in orders, st \in AdminStatuses : Room /\ UpdateOrderStatus_Begin(o.id, st)
  \/ \E t \in tickets : Room /\ RedeemTicket_Begin(t.ticket_code)
  \/ CreateOrder_Step
  \/ UpdateOrderStatus_Step
  \/ RedeemTicket_Step

RedeemSpec == Init /\ [][RedeemNext]_vars

\* Request q takes a step.
StepOf(q) == CopiesIn(q, reqs') < CopiesIn(q, reqs)

\* C1: of the RedeemTicket requests that run concurrently for one ticket_code
\* one returns success and every other one is refused: a request returns
\* success only for a ticket that is unused until then, never for one that
\* another request has already redeemed.
C1_OneScanSucceeds ==
  [][\A q \in BagToSet(reqs) :
       (q.op = "RedeemTicket" /\ StepOf(q) /\ resp'.op = "RedeemTicket" /\ resp'.result = "200")
         => \E t \in tickets : t.id = q.ticket_id /\ ~t.is_used]_vars

\* C1, the case: two RedeemTicket requests for one code are in flight together.
C1_TwoScansInFlight ==
  \E q \in BagToSet(reqs) : q.op = "RedeemTicket" /\ CopiesIn(q, reqs) >= 2

\* C2: when RedeemTicket has returned success for a ticket_code and the next
\* request is RedeemTicket for the same code, that request is refused with
\* 'already used' in its first step and leaves orders and tickets unchanged.
C2_SecondScanRefused ==
  [][(/\ resp.op = "RedeemTicket" /\ resp.result = "200"
      /\ \/ resp'.op = "RedeemTicket" /\ resp'.ticket_code = resp.ticket_code
         \/ Scanning(resp.ticket_code)')
     => /\ resp'.op = "RedeemTicket"
        /\ resp'.result = "400 already used"
        /\ orders' = orders
        /\ tickets' = tickets]_vars

\* C2, the case: a code that was redeemed is scanned again and refused.
C2_ScannedAgain ==
  /\ resp.op = "RedeemTicket"
  /\ resp.result = "400 already used"
  /\ \E t \in tickets : t.ticket_code = resp.ticket_code /\ t.is_used
  /\ \E o \in orders : o.id = resp.order_id /\ o.status = "scanned"

\* C3: is_used of a ticket goes from false to true only in a step taken while
\* its order is completed (or scanned, which RedeemTicket writes just before
\* it marks the ticket).
C3_UsedOnlyWhenCompleted ==
  [][\A t \in tickets : \A t2 \in tickets' :
       (t2.id = t.id /\ ~t.is_used /\ t2.is_used)
         => StatusOfOrder(t.order_id) \subseteq {"completed", "scanned"}
            /\ StatusOfOrder(t.order_id) # {}]_vars

\* C3, the case: VerifyTicketForAdmin has marked a ticket used.
C3_VerifyMarkedUsed ==
  /\ resp.op = "VerifyTicket"
  /\ resp.result = "200"
  /\ \E t \in tickets : t.ticket_code = resp.ticket_code /\ t.is_used

\* C4: a ticket that is used is still used after every step that keeps its row.
C4_UsedStaysUsed ==
  [][\A t \in tickets : t.is_used => \A t2 \in tickets' : t2.id = t.id => t2.is_used]_vars

\* C4, the case: the order of a used ticket has since been given another status
\* by the admin.
C4_UsedThenStatusUpdate ==
  /\ resp.op = "UpdateOrderStatus"
  /\ resp.result = "200"
  /\ \E t \in tickets : t.is_used /\ t.order_id = resp.order_id

\* CallbackSpec: the online payment.  A customer orders and asks for payment,
\* and the return URL is called with the gateway's callbacks and with altered
\* ones, one request after the other.
CallbackNext ==
  \/ Quiet /\ RoomForOrder /\ CreateOrder_Begin("u1", TwoItems)
  \/ \E o \in orders, m \in {"cash", "online"}, a \in 1..MaxAmount :
       Quiet /\ RoomForPayment /\ RecordPayment_Begin("u1", o.id, m, a)
  \/ \E params \in GatewayCallbacks \cup AlteredCallbacks : Quiet /\ Callback_Begin(params)
  \/ CreateOrder_Step
  \/ RecordPayment_Step
  \/ Callback_Step

CallbackSpec == Init /\ [][CallbackNext]_vars

\* The parameters of the callback whose handling starts in this step.
TakenUp ==
  {resp'.params : k \in {k \in {1} : resp'.op = "Callback" /\ reqs' = reqs}}
  \cup {q.params : q \in {q \in BagToSet(reqs') :
                           q.op = "Callback" /\ CopiesIn(q, reqs') > CopiesIn(q, reqs)}}

\* The fields in which params differs from the callback g of the gateway.
Differ(g, params) == {f \in AllFields : params[f] # g[f]}

\* params is a callback of the gateway with one of `fields` altered.
AlteredIn(fields, params) ==
  \E g \in GatewayCallbacks :
    Cardinality(Differ(g, params)) = 1 /\ Differ(g, params) \subseteq fields

\* The callback was refused as wrongly signed and no payment or order changed.
Rejected ==
  /\ resp'.op = "Callback"
  /\ resp'.result = "400 invalid signature"
  /\ payments' = payments
  /\ orders' = orders

\* C5 as stated: a callback of the gateway with the value of any one field
\* altered after signing is refused with the signature error, and payments
\* and orders stay as they are.
C5_AnyAlteredFieldRejected ==
  [][\A params \in TakenUp : AlteredIn(AllFields, params) => Rejected]_vars

\* C5: a callback of the gateway with the value of any one field other than
\* vnp_SecureHashType altered after signing is refused with the signature
\* error, and payments and orders stay as they are.
C5_AlteredSignedFieldRejected ==
  [][\A params \in TakenUp :
       AlteredIn(AllFields \ {"vnp_SecureHashType"}, params) => Rejected]_vars

\* C5, the case: an altered callback was refused for its signature while the
\* payment it names is pending.
C5_CallbackRefused ==
  /\ resp.op = "Callback"
  /\ resp.result = "400 invalid signature"
  /\ AlteredIn(AllFields \ {"vnp_SecureHashType"}, resp.params)
  /\ \E pay \in payments : pay.status = "pending" /\ pay.method = "online"

\* PaymentSpec: the payments of one order.  The customer's payment requests
\* (cash) and the admin's confirmations interleave; up to MaxRacePayments
\* payment rows are inserted.
MaxRacePayments == 3

PaymentNext ==
  \/ Room /\ RoomForOrder /\ CreateOrder_Begin("u1", TwoItems)
  \/ \E o \in orders :
       Room /\ PaymentsUnderway < MaxRacePayments /\ RecordPayment_Begin("u1", o.id, "cash", 1)
  \/ \E p \in payments : Room /\ ConfirmCashPayment_Begin(p.payment_id)
  \/ CreateOrder_Step
  \/ RecordPayment_Step
  \/ RecordPayment_TicketStep
  \/ ConfirmCashPayment_Step

PaymentSpec == Init /\ [][PaymentNext]_vars

\* C6: a RecordPayment request that came when its order had a completed
\* payment, and that is served alone, ends in its next step with the conflict
\* error, and that step writes nothing: payments, orders and tickets are as
\* they were.
C6_PaidOrderRefused ==
  [][\A q \in BagToSet(reqs) :
       (q.op = "RecordPayment" /\ q.paid /\ BagCardinality(reqs) = 1 /\ StepOf(q))
         => /\ resp'.op = "RecordPayment"
            /\ resp'.result = "400 payment already completed"
            /\ payments' = payments
            /\ orders' = orders
            /\ tickets' = tickets]_vars

\* C6, the case: RecordPayment was refused because the order is paid.
C6_ConflictAnswered ==
  /\ resp.op = "RecordPayment"
  /\ resp.result = "400 payment already completed"

\* The payment rows of order oid that are pending or completed.
LivePayments(oid) == {p \in PaymentRows(oid) : p.status \in {"pending", "completed"}}

\* C7: in every state each order has at most one payment row that is pending
\* or completed.
C7_OneLivePayment == \A o \in orders : Cardinality(LivePayments(o.id)) <= 1

\* C7, the case: two RecordPayment requests for one order are in flight.
C7_TwoPaymentsInFlight ==
  \E q1, q2 \in BagToSet(reqs) :
    /\ q1.op = "RecordPayment" /\ q2.op = "RecordPayment"
    /\ q1.order_id = q2.order_id
    /\ q1 # q2 \/ CopiesIn(q1, reqs) >= 2

\* PriceSpec: the menu and the orders.  The admin changes prices and a
\* customer orders, every valid list of up to MaxItems items, one request
\* after the other.
ValidItems == [food_id : FoodIds, quantity : 1..MaxQuantity]

ValidItemLists == UNION {[1..n -> ValidItems] : n \in 1..MaxItems}

PriceNext ==
  \/ \E items \in ValidItemLists : Quiet /\ RoomForOrder /\ CreateOrder_Begin("u1", items)
  \/ \E f \in FoodIds \cup {UnknownFood}, price \in 0..MaxPrice : Quiet /\ UpdateFood(f, price)
  \/ CreateOrder_Step

PriceSpec == Init /\ [][PriceNext]_vars

\* The sum over the items of the food's price x quantity, at the prices of
\* the menu as it stands.
RECURSIVE PriceOf(_)
PriceOf(items) ==
  IF items = <<>> THEN 0
  ELSE food[Head(items).food_id] * Head(items).quantity + PriceOf(Tail(items))

\* CreateOrder request q answers success in this step.
Created(q) ==
  /\ q.op = "CreateOrder"
  /\ StepOf(q)
  /\ resp'.op = "CreateOrder"
  /\ resp'.result = "200"

\* C8: the total_price that CreateOrder returns and stores is the sum over the
\* items of the food's price at that time x quantity, each line item is stored
\* with that price as unit_price, and no later step (a change of a food's
\* price among them) changes the total_price of an order or the unit_price of
\* a line item.
C8_TotalIsPriceTimesQuantity ==
  [][/\ \A q \in BagToSet(reqs) :
          Created(q) =>
            /\ resp'.total_price = PriceOf(q.items)
            /\ \E o \in orders' : o.id = q.order_id /\ o.total_price = PriceOf(q.items)
            /\ \A i \in 1..Len(q.items) :
                 \E it \in order_items' :
                   /\ it.order_id = q.order_id
                   /\ it.food_id = q.items[i].food_id
                   /\ it.quantity = q.items[i].quantity
                   /\ it.unit_price = food[it.food_id]
            /\ Cardinality({it \in order_items' : it.order_id = q.order_id}) = Len(q.items)
     /\ \A o \in orders : \A o2 \in orders' : o2.id = o.id => o2.total_price = o.total_price
     /\ \A it \in order_items : \A it2 \in order_items' :
          it2.id = it.id => it2.unit_price = it.unit_price]_vars

\* C8, the case: an order of quantity 2 is stored and a food's price has been
\* changed since, so that the stored total is no longer the sum at the
\* prices of the menu.
C8_PriceChangedAfterOrder ==
  /\ resp.op = "UpdateFood"
  /\ resp.result = "200"
  /\ \E o \in orders :
       /\ \E it \in ItemRows(o.id) : it.quantity = 2 /\ it.unit_price # food[it.food_id]
       /\ o.total_price = SumItems(ItemRows(o.id))

\* C9: once the strict CancelOrder has answered success for an order, no row
\* of orders, order_items, payments or tickets carries that order id, in that
\* state and in every later one.
C9_CancelledOrderGone ==
  \A oid \in hist.removed :
    /\ OrderRows(oid) = {}
    /\ ItemRows(oid) = {}
    /\ PaymentRows(oid) = {}
    /\ TicketRows(oid) = {}

\* C9, the case: the strict CancelOrder has just answered success.
C9_CancelAnswered ==
  /\ resp.op = "CancelOrder"
  /\ resp.result = "200"
  /\ resp.order_id \in hist.removed

\* The order of CreateOrder request q is complete: every line item of the
\* request and an unused ticket are stored.
Complete(q) ==
  /\ Cardinality(ItemRows(q.order_id)) = Len(q.items)
  /\ \E t \in TicketRows(q.order_id) : ~t.is_used

\* A request other than CreateOrder that names order oid is taken up in this
\* step: its first query reads the rows of that order.
ReadInStep(oid) ==
  \/ /\ reqs' = reqs
     /\ resp'.op \notin {"idle", "CreateOrder"}
     /\ resp'.order_id = oid
  \/ /\ BagCardinality(reqs') > BagCardinality(reqs)
     /\ \E r \in BagToSet(reqs') :
          r.op # "CreateOrder" /\ r.order_id = oid /\ CopiesIn(r, reqs') > CopiesIn(r, reqs)

\* C10: no other request observes an order row without all of its line items
\* and its ticket: when a request reads the rows of an order whose CreateOrder
\* is still being served, the order row is complete or not there.
C10_OrderCompleteOrAbsent ==
  [][\A q \in BagToSet(reqs) :
       (/\ q.op = "CreateOrder" /\ q.order_id # 0
        /\ OrderExists(q.order_id)
        /\ ReadInStep(q.order_id))
         => Complete(q)]_vars

\* C10, the case: a request for the order is being served together with the
\* CreateOrder that has inserted the order row.
C10_ReadDuringCreate ==
  \E q, q2 \in BagToSet(reqs) :
    /\ q.op = "CreateOrder" /\ q.order_id # 0
    /\ q2.op # "CreateOrder" /\ q2.order_id = q.order_id

\* A payment of order oid is completed while the order is not.
PaidNotCompleted(oid) ==
  /\ \E p \in PaymentRows(oid) : p.status = "completed"
  /\ \E o \in OrderRows(oid) : o.status # "completed"

\* The callback q has run its UPDATE of payments and not yet that of orders.
BetweenUpdates(q) == q.op = "Callback" /\ q.pc = "updateOrder"

\* C11: a signed callback with the success code completes the payment and the
\* order as one step: no other request takes a step in a state in which the
\* callback has completed the payment of an order and the order is not yet
\* completed.
C11_PaymentAndOrderTogether ==
  [][\A q \in BagToSet(reqs) :
       (BetweenUpdates(q) /\ ~StepOf(q)) => ~PaidNotCompleted(q.order_id)]_vars

\* C11, the case: a callback is between its two UPDATEs while another request
\* is being served.
C11_CallbackBetweenUpdates ==
  \E q \in BagToSet(reqs) :
    /\ BetweenUpdates(q)
    /\ PaidNotCompleted(q.order_id)
    /\ BagCardinality(reqs) > 1

\* The callback handler has answered that the payment was not made.
CancelledAnswer(r) == r.op = "Callback" /\ r.result = "302 payment=cancelled"

\* A RecordPayment request is refused for what it carries (no amount).
InputRefused(r) == r.op = "RecordPayment" /\ r.result = "400 amount"

\* C12: a signed callback with a code other than the success code sets the
\* payments of the order to cancelled and leaves every order as it is, and a
\* RecordPayment of the owner for that order that follows it succeeds: it is
\* taken up unless its input is invalid, it finds no completed payment, and a
\* request with a valid method that found none when it came answers success.
C12_CancelledStaysPayable ==
  [][/\ CancelledAnswer(resp') =>
          /\ orders' = orders
          /\ \A p \in payments' : p.order_id = resp'.order_id => p.status = "cancelled"
          /\ {p \in payments' : p.order_id # resp'.order_id}
               = {p \in payments : p.order_id # resp'.order_id}
     /\ (/\ CancelledAnswer(resp)
         /\ resp'.op = "RecordPayment"
         /\ resp'.order_id = resp.order_id
         /\ \E o \in OrderRows(resp.order_id) : o.user_id = resp'.user)
          => InputRefused(resp')
     /\ CancelledAnswer(resp) =>
          \A r \in BagToSet(reqs') :
            (r.op = "RecordPayment" /\ r.order_id = resp.order_id) => ~r.paid
     /\ \A q \in BagToSet(reqs) :
          (/\ q.op = "RecordPayment" /\ StepOf(q)
           /\ ~q.paid /\ q.method \in {"cash", "online"}
           /\ resp'.op = "RecordPayment")
            => resp'.result = "200"]_vars

\* C12, the case: the callback has just cancelled a payment of an order that
\* is there.
C12_PaymentCancelled ==
  /\ CancelledAnswer(resp)
  /\ OrderExists(resp.order_id)
  /\ \E p \in PaymentRows(resp.order_id) : p.status = "cancelled"

\* The statuses a payment does not leave.
FinalPaymentStatuses == {"completed", "cancelled"}

\* C13: the status of a payment only moves out of pending: a payment that is
\* completed or cancelled keeps that status in every step that keeps its row.
C13_FinalPaymentKeepsStatus ==
  [][\A p \in payments : \A p2 \in payments' :
       (p2.payment_id = p.payment_id /\ p.status \in FinalPaymentStatuses)
         => p2.status = p.status]_vars

\* C13, the case: a callback that was issued for an earlier payment attempt
\* has been answered, and the payment of the order is the cash payment that
\* replaced that attempt.
C13_StaleCallbackAnswered ==
  /\ resp.op = "Callback"
  /\ resp.result \in {"302 payment=cancelled", "302 payment=success"}
  /\ \E p \in PaymentRows(resp.order_id) : p.method = "cash"

\* The statuses an order does not leave.
TerminalOrderStatuses == {"scanned", "cancelled"}

\* C14: scanned and cancelled are terminal: an order whose status is scanned
\* or cancelled keeps that status in every step that keeps its row.
C14_TerminalOrderKeepsStatus ==
  [][\A o \in orders : \A o2 \in orders' :
       (o2.id = o.id /\ o.status \in TerminalOrderStatuses) => o2.status = o.status]_vars

\* C14, the case: a handler that writes orders.status is being served for an
\* order that is scanned or cancelled.
C14_WriteOnTerminalOrder ==
  \E q \in BagToSet(reqs) :
    /\ \/ q.op = "UpdateOrderStatus" /\ q.pc = "update"
       \/ q.op = "RecordPayment" /\ q.pc = "updateOrder"
       \/ q.op = "Callback" /\ q.pc = "updateOrder"
       \/ q.op = "SoftCancelOrder" /\ q.pc = "update"
    /\ StatusOfOrder(q.order_id) \cap TerminalOrderStatuses # {}

\* CashSpec: the cash flow.  A customer orders and pays cash, the admin
\* confirms the payment, sets the status of the order and scans the ticket at
\* any time, one request after the other.
CashNext ==
  \/ Quiet /\ RoomForOrder /\ CreateOrder_Begin("u1", TwoItems)
  \/ \E o \in orders : Quiet /\ RoomForPayment /\ RecordPayment_Begin("u1", o.id, "cash", 1)
  \/ \E p \in payments : Quiet /\ ConfirmCashPayment_Begin(p.payment_id)
  \/ \E o \in orders, st \in AdminStatuses : Quiet /\ UpdateOrderStatus_Begin(o.id, st)
  \/ \E t \in tickets : Quiet /\ RedeemTicket_Begin(t.ticket_code)
  \/ CreateOrder_Step
  \/ RecordPayment_Step
  \/ ConfirmCashPayment_Step
  \/ UpdateOrderStatus_Step
  \/ RedeemTicket_Step

CashSpec == Init /\ [][CashNext]_vars

\* The answers of RedeemTicket to an order that is not paid or not confirmed.
MustPayOrConfirm == {"400 not confirmed", "400 pay first"}

\* The handler `op` answers success in this step.
Succeeds(op) == resp'.op = op /\ resp'.result = "200"

\* C15: in the cash flow the payment is pending when RecordPayment has
\* answered and completed when ConfirmCashPayment has answered; only
\* UpdateOrderStatus makes the order completed; RedeemTicket for an order that
\* is not completed (and not redeemed before) is refused with the message to
\* pay or to wait for confirmation, and RedeemTicket succeeds only for an
\* order that is completed and leaves it scanned.
C15_CashFlow ==
  [][/\ Succeeds("RecordPayment") =>
          \A p \in payments' : p.order_id = resp'.order_id => p.status = "pending"
     /\ Succeeds("ConfirmCashPayment") =>
          \A p \in payments' : p.payment_id = resp'.payment_id => p.status = "completed"
     /\ \A o \in orders : \A o2 \in orders' :
          (o2.id = o.id /\ o.status # "completed" /\ o2.status = "completed")
            => Succeeds("UpdateOrderStatus")
     /\ \A t \in tickets :
          (/\ resp'.op = "RedeemTicket" /\ resp'.ticket_code = t.ticket_code
           /\ reqs = EmptyBag
           /\ ~t.is_used
           /\ StatusOfOrder(t.order_id) \subseteq {"pending", "confirmed"})
            => resp'.result \in MustPayOrConfirm
     /\ \A t \in tickets :
          (/\ reqs = EmptyBag
           /\ \E r \in BagToSet(reqs') : r.op = "RedeemTicket" /\ r.ticket_code = t.ticket_code)
            => StatusOfOrder(t.order_id) = {"completed"}
     /\ Succeeds("RedeemTicket") =>
          /\ \A o \in orders' : o.id = resp'.order_id => o.status = "scanned"
          /\ \E q \in BagToSet(reqs) : q.op = "RedeemTicket" /\ StepOf(q)]_vars

\* C15, the case: the ticket of an order paid in cash, confirmed and set to
\* completed has been redeemed.
C15_CashOrderRedeemed ==
  /\ resp.op = "RedeemTicket"
  /\ resp.result = "200"
  /\ \E p \in PaymentRows(resp.order_id) : p.method = "cash" /\ p.status = "completed"
  /\ StatusOfOrder(resp.order_id) = {"scanned"}

\* The redemption q has run its UPDATE of orders and not yet that of tickets:
\* the order is scanned and the ticket is not used.
HalfRedeemed(q) ==
  /\ q.op = "RedeemTicket" /\ q.pc = "updateTicket"
  /\ StatusOfOrder(q.order_id) = {"scanned"}
  /\ \E t \in tickets : t.id = q.ticket_id /\ ~t.is_used

\* C16: a redemption sets the order to scanned and the ticket to used
\* together: no other request takes a step in a state in which one of the two
\* updates of a redemption has been applied and the other has not.
C16_RedeemedTogether ==
  [][\A q \in BagToSet(reqs) : ~StepOf(q) => ~HalfRedeemed(q)]_vars

\* C16, the case: a redemption is between its two UPDATEs while another
\* request is being served.
C16_RedeemBetweenUpdates ==
  \E q \in BagToSet(reqs) : HalfRedeemed(q) /\ BagCardinality(reqs) > 1

\* RedeemTicket answers in the step in which it is taken up: it is refused.
RefusedScan == resp'.op = "RedeemTicket" /\ reqs' = reqs

\* C17: RedeemTicket for an unused ticket of a pending order is refused with
\* the message that the order is not confirmed, for one of a confirmed order
\* with the message to pay first, and for a code no ticket has with not
\* found; the orders and the tickets are then as they were.
C17_RefusalPerStatus ==
  [][RefusedScan =>
       /\ (\A t \in tickets : t.ticket_code # resp'.ticket_code)
            => /\ resp'.result = "404 ticket not found"
               /\ orders' = orders /\ tickets' = tickets
       /\ \A t \in tickets :
            (t.ticket_code = resp'.ticket_code /\ ~t.is_used) =>
              /\ StatusOfOrder(t.order_id) = {"pending"}
                   => /\ resp'.result = "400 not confirmed"
                      /\ orders' = orders /\ tickets' = tickets
              /\ StatusOfOrder(t.order_id) = {"confirmed"}
                   => /\ resp'.result = "400 pay first"
                      /\ orders' = orders /\ tickets' = tickets]_vars

\* C17, the case: the scan of an unused ticket of a pending order was refused.
C17_PendingScanRefused ==
  /\ resp.op = "RedeemTicket"
  /\ resp.result = "400 not confirmed"
  /\ \E t \in tickets :
       t.ticket_code = resp.ticket_code /\ ~t.is_used /\ StatusOfOrder(t.order_id) = {"pending"}

\* OrderSpec: the order form.  Customers send every item list of up to
\* MaxItems items: known and unknown foods, quantities from 0, no items.
AnyItems == [food_id : FoodIds \cup {UnknownFood}, quantity : 0..MaxQuantity]

AnyItemLists == UNION {[1..n -> AnyItems] : n \in 0..MaxItems}

OrderNext ==
  \/ \E u \in Users, items \in AnyItemLists :
       Quiet /\ RoomForOrder /\ CreateOrder_Begin(u, items)
  \/ CreateOrder_Step

OrderSpec == Init /\ [][OrderNext]_vars

\* The answers of CreateOrder to a list it does not accept.
ValidationErrors == {"400 items required"}

BadQuantity(items) == \E i \in 1..Len(items) : items[i].quantity <= 0

UnknownFoodIn(items) == \E i \in 1..Len(items) : items[i].food_id \notin DOMAIN food

\* C18: CreateOrder is refused with a validation error for an empty item list
\* and for a list with a quantity <= 0, and with not found for a list with an
\* unknown food; a CreateOrder that is refused has written no row.
C18_InvalidOrderRefused ==
  [][/\ (resp'.op = "CreateOrder" /\ reqs' = reqs) =>
          /\ resp'.result \in ValidationErrors \cup {"404 food not found"}
          /\ UNCHANGED tables
     /\ \A q \in BagToSet(reqs) :
          (q.op = "CreateOrder" /\ StepOf(q) /\ resp'.op = "CreateOrder") =>
            /\ BadQuantity(q.items) => resp'.result \in ValidationErrors
            /\ (UnknownFoodIn(q.items) /\ ~BadQuantity(q.items))
                 => resp'.result = "404 food not found"
            /\ resp'.result # "200" => (q.order_id = 0 /\ UNCHANGED tables)]_vars

\* C18, the case: CreateOrder has answered success for a list with a quantity
\* of 0 and the line item is stored.
C18_ZeroQuantityStored ==
  /\ resp.op = "CreateOrder"
  /\ resp.result = "200"
  /\ \E it \in ItemRows(resp.order_id) : it.quantity = 0

\* The handlers that look the order up by its id and its owner.
OwnerOps == {"RecordPayment", "CancelOrder", "SoftCancelOrder"}

\* The order that answer r names is there and belongs to another user.
OthersOrder(r) == \E o \in OrderRows(r.order_id) : o.user_id # r.user

NotFoundOrNotAuthorized == "404 order not found or not authorized"

\* C19 as stated: RecordPayment and both CancelOrder handlers, called for an
\* order of another user, answer not found / not authorized and change no
\* row.
C19_OthersOrderRefused ==
  [][(resp'.op \in OwnerOps /\ OthersOrder(resp'))
       => (resp'.result = NotFoundOrNotAuthorized /\ UNCHANGED tables)]_vars

\* C19: RecordPayment with a positive amount and both CancelOrder handlers,
\* called for an order of another user, answer not found / not authorized;
\* RecordPayment with an amount <= 0 answers the validation error; no row is
\* changed in either case.
C19_OthersOrderRefusedOrInvalid ==
  [][(resp'.op \in OwnerOps /\ OthersOrder(resp')) =>
       /\ UNCHANGED tables
       /\ IF resp'.op = "RecordPayment" /\ resp'.amount <= 0
            THEN resp'.result = "400 amount"
            ELSE resp'.result = NotFoundOrNotAuthorized]_vars

\* C19, the case: RecordPayment for an order of another user was refused as
\* not found.
C19_OthersPaymentRefused ==
  /\ resp.op = "RecordPayment"
  /\ resp.amount > 0
  /\ OthersOrder(resp)
  /\ resp.result = NotFoundOrNotAuthorized

\* C20: UpdateOrderStatus sets the status of the order to the requested value
\* when the value is pending, confirmed or completed and the order is there,
\* and changes nothing else; for another value it answers the validation
\* error and for an absent order not found, and changes nothing.
C20_StatusSetOrRefused ==
  [][resp'.op = "UpdateOrderStatus" =>
       IF resp'.status \notin AdminStatuses
         THEN resp'.result = "400 invalid status" /\ UNCHANGED tables
         ELSE IF OrderRows(resp'.order_id) = {}
           THEN resp'.result = "404 order not found" /\ UNCHANGED tables
           ELSE /\ resp'.result = "200"
                /\ orders' = SetOrderStatus(resp'.order_id, resp'.status)
                /\ UNCHANGED <<food, order_items, payments, tickets, autoinc>>]_vars

\* C20, the case: the admin asked for the status scanned for an order that is
\* there and was refused.
C20_InvalidStatusRefused ==
  /\ resp.op = "UpdateOrderStatus"
  /\ resp.status = "scanned"
  /\ resp.result = "400 invalid status"
  /\ OrderExists(resp.order_id)

\* The cash payments with the payment_id that answer r names.
CashPaymentNamed(r) == {p \in payments : p.payment_id = r.payment_id /\ p.method = "cash"}

\* C21: ConfirmCashPayment with a payment_id answers not found when no cash
\* payment has that id and the conflict error when that payment is completed,
\* and changes nothing in both cases; otherwise it sets the status of that
\* payment to completed and changes nothing else: no other payment, no order,
\* no ticket.
C21_CashPaymentConfirmed ==
  [][(resp'.op = "ConfirmCashPayment" /\ resp'.payment_id # 0) =>
       IF CashPaymentNamed(resp') = {}
         THEN resp'.result = "404 payment not found" /\ UNCHANGED tables
         ELSE IF \E p \in CashPaymentNamed(resp') : p.status = "completed"
           THEN resp'.result = "400 payment already completed" /\ UNCHANGED tables
           ELSE /\ resp'.result = "200"
                /\ payments' = SetPaymentStatus(resp'.payment_id, "completed")
                /\ \E p \in payments' : p.payment_id = resp'.payment_id /\ p.status = "completed"
                /\ UNCHANGED <<food, orders, order_items, tickets, autoinc>>]_vars

\* C21, the case: the admin has confirmed the cash payment of an order; the
\* order is confirmed as before and its ticket unused.
C21_CashConfirmed ==
  /\ resp.op = "ConfirmCashPayment"
  /\ resp.result = "200"
  /\ \E p \in payments :
       /\ p.payment_id = resp.payment_id /\ p.method = "cash" /\ p.status = "completed"
       /\ StatusOfOrder(p.order_id) = {"confirmed"}
       /\ \E t \in TicketRows(p.order_id) : ~t.is_used

\* C22: in every state each order has at most one ticket row.
C22_OneTicketPerOrder == \A o \in orders : Cardinality(TicketRows(o.id)) <= 1

\* C22, the case: RecordPayment has found no ticket of the order and is about
\* to insert one, while the CreateOrder of that order is still being served.
C22_PaymentDuringCreate ==
  \E q, q2 \in BagToSet(reqs) :
    /\ q.op = "RecordPayment" /\ q.pc = "insertTicket"
    /\ q2.op = "CreateOrder" /\ q2.order_id = q.order_id

\* The order that answer r names belongs to the caller and is not pending.
OwnNotPending(r) ==
  \E o \in OrderRows(r.order_id) : o.user_id = r.user /\ o.status # "pending"

OnlyPending == "400 only pending orders can be cancelled"

\* C23: the strict CancelOrder, called by the owner for an order that is not
\* pending, answers the conflict error and deletes nothing: orders,
\* order_items, payments and tickets are as they were.
C23_NotPendingNotCancelled ==
  [][(resp'.op = "CancelOrder" /\ OwnNotPending(resp'))
       => (resp'.result = OnlyPending /\ UNCHANGED tables)]_vars

\* C23, the case: the strict CancelOrder was refused for an order that is
\* completed and has its line items, a payment and its ticket.
C23_PaidOrderNotCancelled ==
  /\ resp.op = "CancelOrder"
  /\ resp.result = OnlyPending
  /\ StatusOfOrder(resp.order_id) = {"completed"}
  /\ ItemRows(resp.order_id) # {}
  /\ PaymentRows(resp.order_id) # {}
  /\ TicketRows(resp.order_id) # {}

\* A query of the handler in flight fails (the connection is lost, the store
\* is down, a statement times out): db.query throws, nothing is written by
\* that statement, and the handler's catch answers 500.
StoreFault(q) ==
  /\ BagIn(q, reqs)
  /\ StoreError(q)

StoreFault_Step == \E q \in BagToSet(reqs) : StoreFault(q)

\* FaultSpec: the server on a store that may fail.  A customer orders, pays
\* cash and cancels, the admin sets the status of the order and scans the
\* ticket, one request after the other, and any query after the first of a
\* handler may fail.
FaultNext ==
  \/ Quiet /\ RoomForOrder /\ CreateOrder_Begin("u1", TwoItems)
  \/ \E o \in orders : Quiet /\ RoomForPayment /\ RecordPayment_Begin("u1", o.id, "cash", 1)
  \/ \E o \in orders, st \in AdminStatuses : Quiet /\ UpdateOrderStatus_Begin(o.id, st)
  \/ \E o \in orders : Quiet /\ CancelOrder_Begin("u1", o.id)
  \/ \E t \in tickets : Quiet /\ RedeemTicket_Begin(t.ticket_code)
  \/ CreateOrder_Step
  \/ RecordPayment_Step
  \/ RecordPayment_TicketStep
  \/ UpdateOrderStatus_Step
  \/ CancelOrder_Step
  \/ RedeemTicket_Step
  \/ StoreFault_Step

FaultSpec == Init /\ [][FaultNext]_vars

\* Request q ends with a store error in this step.
EndsWithStoreError(q) == StepOf(q) /\ resp'.result = "500 server error"

\* C24: when an operation ends with a store error, orders, order_items,
\* payments and tickets are as they were before the operation started: no
\* statement of the operation has changed a row.
C24_StoreErrorNoEffect ==
  [][\A q \in BagToSet(reqs) :
       EndsWithStoreError(q)
         => (~q.wrote /\ UNCHANGED <<orders, order_items, payments, tickets>>)]_vars

\* C24, the case: the strict CancelOrder has ended with a store error after
\* it deleted the ticket of the order, and the order is still there.
C24_CancelFailedHalfway ==
  /\ resp.op = "CancelOrder"
  /\ resp.result = "500 server error"
  /\ OrderExists(resp.order_id)
  /\ TicketRows(resp.order_id) = {}
  /\ ItemRows(resp.order_id) # {}

\* MenuSpec: the menu changes while orders are made and cancelled.  The admin
\* changes prices at any time; a customer orders and cancels, the handlers
\* interleaving with each other and with the price changes.
MenuNext ==
  \/ \E items \in ValidItemLists : Room /\ RoomForOrder /\ CreateOrder_Begin("u1", items)
  \/ \E f \in FoodIds \cup {UnknownFood}, price \in 0..MaxPrice : UpdateFood(f, price)
  \/ \E o \in orders : Room /\ CancelOrder_Begin("u1", o.id)
  \/ CreateOrder_Step
  \/ CancelOrder_Step

MenuSpec == Init /\ [][MenuNext]_vars

\* The CreateOrder of order oid is over: no request is still inserting its rows.
CreateOrderOver(oid) ==
  \A q \in BagToSet(reqs) : q.op = "CreateOrder" => q.order_id # oid

\* C25: for every order whose CreateOrder has returned, the sum of quantity x
\* unit_price over its line items is its total_price, in every state in
\* which the order exists.
C25_ItemsSumToTotal ==
  \A o \in orders : CreateOrderOver(o.id) => SumItems(ItemRows(o.id)) = o.total_price

\* C25, the case: CreateOrder has returned success for an order during whose
\* creation a price was changed: a line item carries a unit_price that is no
\* longer the price of the food.
C25_PriceChangedDuringCreate ==
  /\ resp.op = "CreateOrder"
  /\ resp.result = "200"
  /\ \E it \in ItemRows(resp.order_id) : it.unit_price # food[it.food_id]

\* The callback that is taken up in this step is the one that was applied
\* last, and no request was served in between.
ReplayTakenUp ==
  /\ resp.op = "Callback"
  /\ resp.result \in Redirects
  /\ resp.params \in TakenUp

\* C26: applying the same correctly signed callback twice in a row leaves the
\* payments and the orders as they are after the first time: no statement of
\* the second application changes a payment or an order, and it is answered
\* as the first.
C26_ReplayChangesNothing ==
  [][/\ ReplayTakenUp => (payments' = payments /\ orders' = orders)
     /\ (ReplayTakenUp /\ resp'.op = "Callback") => resp'.result = resp.result
     /\ \A q \in BagToSet(reqs) :
          (q.op = "Callback" /\ q.replay /\ StepOf(q))
            => /\ payments' = payments /\ orders' = orders
               /\ resp'.result = "302 payment=success"]_vars

\* C26, the case: a callback with the success code is being applied for the
\* second time in a row, to a payment and an order that it has completed.
C26_SuccessReplayed ==
  \E q \in BagToSet(reqs) :
    /\ q.op = "Callback" /\ q.replay /\ q.pc = "updateOrder"
    /\ StatusOfOrder(q.order_id) = {"completed"}
    /\ \E p \in PaymentRows(q.order_id) : p.status = "completed"

\* C27: RecordPayment changes the status of an order in one way only: with
\* method cash it moves its order from pending to confirmed; no other order
\* status changes in a step of RecordPayment, neither with method online nor
\* for an order that is not pending.
C27_OnlyPendingToConfirmed ==
  [][\A q \in BagToSet(reqs) :
       (q.op = "RecordPayment" /\ StepOf(q)) =>
         /\ \A o \in orders : \A o2 \in orders' :
              (o2.id = o.id /\ o2.status # o.status)
                => /\ q.method = "cash"
                   /\ o.id = q.order_id
                   /\ o.status = "pending"
                   /\ o2.status = "confirmed"
         /\ (q.method = "cash" /\ q.pc = "updateOrder")
              => \A o \in OrderRows(q.order_id) :
                   o.status = "pending"
                     => \E o2 \in orders' : o2.id = o.id /\ o2.status = "confirmed"]_vars

\* C27, the case: a cash payment has been recorded for an order that the
\* admin has set to completed, and RecordPayment is about to update the
\* order.
C27_CashOnCompletedOrder ==
  \E q \in BagToSet(reqs) :
    /\ q.op = "RecordPayment" /\ q.method = "cash" /\ q.pc = "updateOrder"
    /\ StatusOfOrder(q.order_id) = {"completed"}

\* The ticket with the code that answer r names is there and unused, and its
\* order has a payment, which is completed.
Verifiable(r) ==
  \E t \in tickets :
    /\ t.ticket_code = r.ticket_code
    /\ ~t.is_used
    /\ PaymentRows(t.order_id) # {}
    /\ \A p \in PaymentRows(t.order_id) : p.status = "completed"

\* C28: VerifyTicketForAdmin succeeds exactly when the ticket_code exists, the
\* ticket is unused and the payment of its order is completed; it then marks
\* the ticket used and changes nothing else; in every other case it fails
\* and changes nothing.
C28_VerifiedWhenPaid ==
  [][resp'.op = "VerifyTicket" =>
       IF Verifiable(resp')
         THEN /\ resp'.result = "200"
              /\ tickets' = {IF t.ticket_code = resp'.ticket_code
                               THEN [t EXCEPT !.is_used = TRUE] ELSE t : t \in tickets}
              /\ UNCHANGED <<food, orders, order_items, payments, autoinc>>
         ELSE /\ resp'.result # "200"
              /\ UNCHANGED tables]_vars

\* C28, the case: the ticket of an order whose payment is completed has been
\* verified: it is used, and the order and the payment are as they were.
C28_PaidTicketVerified ==
  /\ resp.op = "VerifyTicket"
  /\ resp.result = "200"
  /\ \E t \in TicketRows(resp.order_id) : t.ticket_code = resp.ticket_code /\ t.is_used
  /\ \E p \in PaymentRows(resp.order_id) : p.status = "completed"
  /\ StatusOfOrder(resp.order_id) \cap {"scanned"} = {}

\* The order that answer r names belongs to the caller.
OwnOrder(r) == \E o \in OrderRows(r.order_id) : o.user_id = r.user

\* C29: the lenient CancelOrder, called by the owner, sets the status of the
\* order to cancelled whatever the status is, and changes nothing else: the
\* other orders, the line items, the payments and the tickets are as they
\* were.
C29_SoftCancelOnlySetsStatus ==
  [][(resp'.op = "SoftCancelOrder" /\ OwnOrder(resp')) =>
       /\ resp'.result = "200"
       /\ orders' = SetOrderStatus(resp'.order_id, "cancelled")
       /\ \A o \in orders' : o.id = resp'.order_id => o.status = "cancelled"
       /\ UNCHANGED <<food, order_items, payments, tickets, autoinc>>]_vars

\* C29, the case: the owner has cancelled an order that was paid; the order
\* is cancelled and its line items, its completed payment and its ticket are
\* there.
C29_PaidOrderSoftCancelled ==
  /\ resp.op = "SoftCancelOrder"
  /\ resp.result = "200"
  /\ StatusOfOrder(resp.order_id) = {"cancelled"}
  /\ ItemRows(resp.order_id) # {}
  /\ \E p \in PaymentRows(resp.order_id) : p.status = "completed"
  /\ TicketRows(resp.order_id) # {}

\* The handlers of the operations, by who calls them: the customer, the
\* admin, the payment gateway.
CustomerHandlers == {"CreateOrder", "RecordPayment", "CancelOrder", "SoftCancelOrder"}
AdminHandlers    == {"ConfirmCashPayment", "UpdateOrderStatus", "RedeemTicket", "VerifyTicket"}
GatewayHandlers  == {"Callback"}

Handlers == CustomerHandlers \cup AdminHandlers \cup GatewayHandlers

\* A request of handler op is being served / has just been answered.
Busy(op) == \E q \in BagToSet(reqs) : q.op = op

Answered(op) == resp.op = op /\ resp.result # "none"

\* A caller sends its next request when its last one is answered: a request
\* of one of `ops` is taken while there is room and none of them is being
\* served.
Free(ops) == Room /\ \A op \in ops : ~Busy(op)

\* LiveSpec: the server on a store that answers every query.  The customer,
\* the admin and the gateway each send one request at a time, and the
\* handlers of their requests interleave at the queries; the event loop
\* resumes every handler whose query has been answered (weak fairness of the
\* steps of each handler).
LiveNext ==
  \/ Free(CustomerHandlers) /\ RoomForOrder /\ CreateOrder_Begin("u1", TwoItems)
  \/ \E o \in orders, m \in {"cash", "online"} :
       Free(CustomerHandlers) /\ RoomForPayment /\ RecordPayment_Begin("u1", o.id, m, 1)
  \/ \E p \in payments : Free(AdminHandlers) /\ ConfirmCashPayment_Begin(p.payment_id)
  \/ \E o \in orders, st \in AdminStatuses :
       Free(AdminHandlers) /\ UpdateOrderStatus_Begin(o.id, st)
  \/ \E o \in orders : Free(CustomerHandlers) /\ CancelOrder_Begin("u1", o.id)
  \/ \E o \in orders : Free(CustomerHandlers) /\ SoftCancelOrder_Begin("u1", o.id)
  \/ \E params \in GatewayCallbacks : Free(GatewayHandlers) /\ Callback_Begin(params)
  \/ \E t \in tickets : Free(AdminHandlers) /\ RedeemTicket_Begin(t.ticket_code)
  \/ \E t \in tickets : Free(AdminHandlers) /\ VerifyTicket_Begin(t.ticket_code)
  \/ Step

LiveSpec ==
  /\ Init /\ [][LiveNext]_vars
  /\ WF_vars(CreateOrder_Step)
  /\ WF_vars(RecordPayment_Step)
  /\ WF_vars(ConfirmCashPayment_Step)
  /\ WF_vars(UpdateOrderStatus_Step)
  /\ WF_vars(CancelOrder_Step)
  /\ WF_vars(SoftCancelOrder_Step)
  /\ WF_vars(Callback_Step)
  /\ WF_vars(RedeemTicket_Step)
  /\ WF_vars(VerifyTicket_Step)

\* A response is sent in this step / a handler ends in this step (one that
\* was being served, or one that is taken up and answers at once).
Sends == resp'.result # "none"

Ends == BagCardinality(reqs') < BagCardinality(reqs) \/ reqs' = reqs

\* C30: every started operation eventually finishes with exactly one
\* response: a request that is being served is answered, whatever the other
\* requests do, and a handler sends a response in the step in which it ends
\* and in no other.
C30_EveryRequestAnswered ==
  /\ \A op \in Handlers : Busy(op) ~> Answered(op)
  /\ [][Sends <=> Ends]_vars

\* C30, the case: two handlers are being served together, one of them
\* CreateOrder in its loop over the items.
C30_TwoHandlersBusy ==
  \E q, q2 \in BagToSet(reqs) :
    /\ q.op = "CreateOrder" /\ q.pc = "insertItem"
    /\ q2.op # "CreateOrder"

\* The two endpoints that redeem a ticket.
Redemptions == {"RedeemTicket", "VerifyTicket"}

\* A redemption returns success for `code` in this step.
Accepts(code) ==
  /\ resp'.op \in Redemptions
  /\ resp'.result = "200"
  /\ resp'.ticket_code = code

\* C31: once RedeemTicket or VerifyTicketForAdmin has returned success for a
\* ticket_code, no call of either endpoint that starts afterwards with that
\* code succeeds, whatever the other handlers do in between.  The success of
\* a redemption leaves its code spent; no step of any handler makes a spent
\* code redeemable again; and a redemption that starts on a spent code
\* never returns success.
C31_SingleUse ==
  [][/\ \A code \in Codes :
          /\ Accepts(code) => Spent(code)'
          /\ Spent(code) => Spent(code)'
     /\ \A q \in BagToSet(reqs) :
          (q.op \in Redemptions /\ StepOf(q) /\ Accepts(q.ticket_code)) => ~q.late
     /\ (resp'.op \in Redemptions /\ resp'.result = "200")
          => \E q \in BagToSet(reqs) :
               q.op = resp'.op /\ StepOf(q) /\ q.ticket_code = resp'.ticket_code]_vars

\* C31, the case: a code that tickets/verify accepted (its order was never
\* scanned) is scanned afterwards and refused.
C31_ScanAfterVerifyRefused ==
  /\ resp.op = "RedeemTicket"
  /\ resp.result = "400 already used"
  /\ Spent(resp.ticket_code)
  /\ \E t \in tickets : t.ticket_code = resp.ticket_code /\ t.is_used
  /\ \E o \in orders : o.id = resp.order_id /\ o.status = "completed"

\* No RedeemTicket and no VerifyTicketForAdmin request is being served.
NoRedemption == \A q \in BagToSet(reqs) : q.op \notin Redemptions

\* C32: in every state in which no redemption is in progress, a ticket is
\* used if and only if the status of its order is scanned.
C32_UsedIffScanned ==
  NoRedemption =>
    \A t \in tickets : \A o \in OrderRows(t.order_id) :
      t.is_used <=> o.status = "scanned"

\* C32, the case: tickets/verify has accepted a code and no redemption is in
\* progress; the ticket is used.
C32_TicketVerified ==
  /\ NoRedemption
  /\ resp.op = "VerifyTicket"
  /\ resp.result = "200"
  /\ \E t \in tickets : t.ticket_code = resp.ticket_code /\ t.is_used

\* The parameters of the callback whose handler takes this step: its first
\* (signature check and UPDATE payments) or its second (UPDATE orders).
CallbackActing ==
  TakenUp \cup {q.params : q \in {q \in BagToSet(reqs) : q.op = "Callback" /\ StepOf(q)}}

\* The payments the callback names: those of its transaction reference.
NamedPayments(params) == {p \in payments : p.transaction_id = params.vnp_TxnRef}

\* C33: a correctly signed callback changes only the payment whose
\* transaction_id is the callback's transaction reference; when that payment
\* has been purged and replaced, the callback changes neither the newer
\* payment nor the order.
C33_OnlyNamedPaymentChanges ==
  [][\A params \in CallbackActing :
       ValidSignature(params) =>
         /\ \A p \in payments \ NamedPayments(params) : p \in payments'
         /\ NamedPayments(params) = {} => orders' = orders]_vars

\* C33, the case: a callback of the gateway has been applied after the
\* payment attempt it was issued for was purged and replaced by a newer one.
C33_CallbackForPurgedAttempt ==
  /\ resp.op = "Callback"
  /\ resp.result \in Redirects
  /\ ValidSignature(resp.params)
  /\ NamedPayments(resp.params) = {}
  /\ PaymentRows(resp.order_id) # {}

\* C34: no pickup without payment: an order whose status is scanned has a
\* payment row with status completed.
C34_ScannedOrderPaid ==
  \A o \in orders :
    o.status = "scanned" => \E p \in PaymentRows(o.id) : p.status = "completed"

\* C34, the case: scan-qr has handed out an order, which is scanned.
C34_OrderScanned ==
  /\ resp.op = "RedeemTicket"
  /\ resp.result = "200"
  /\ StatusOfOrder(resp.order_id) = {"scanned"}

\* C35: every payment row with status completed has an amount equal to the
\* total_price of its order, whether ConfirmCashPayment or the callback of the
\* gateway completed it.
C35_CompletedAmountIsTotal ==
  \A p \in payments :
    p.status = "completed" => \A o \in OrderRows(p.order_id) : p.amount = o.total_price

\* C35, the case: the admin has confirmed a cash payment, which is completed.
C35_CashPaymentCompleted ==
  /\ resp.op = "ConfirmCashPayment"
  /\ resp.result = "200"
  /\ \E p \in payments :
       p.payment_id = resp.payment_id /\ p.method = "cash" /\ p.status = "completed"

\* C36: a payment row whose status is completed is never deleted, neither by
\* the purge of RecordPayment nor by the cascade of CancelOrder, under any
\* interleaving of the handlers.
C36_CompletedPaymentKept ==
  [][\A p \in payments :
       p.status = "completed" => \E p2 \in payments' : p2.payment_id = p.payment_id]_vars

\* C36, the case: the cascade of a CancelOrder is about to delete the
\* payments of an order that has a completed one.
C36_CancelReachesCompletedPayment ==
  \E q \in BagToSet(reqs) :
    /\ q.op = "CancelOrder"
    /\ q.pc = "deletePayments"
    /\ \E p \in PaymentRows(q.order_id) : p.status = "completed"

====
